---- MODULE Spec2Model ----
(***************************************************************************)
(* A model of eeyore's Monte Carlo chain store (eeyore/mcmc/mcchain.py)    *)
(* and of its single-chain samplers (eeyore/mcmc/samplers).                *)
(*                                                                         *)
(* Parameter vectors are modelled with one coordinate taking small         *)
(* integer values; log-densities are integers.  A chain store is a        *)
(* mapping from field names to sequences, exactly as MCChain.vals.        *)
(***************************************************************************)
EXTENDS Integers, Sequences, FiniteSets, TLC

VARIABLES
    vals,       \* vals[s]: MCChain.vals of store s, field name -> sequence
    keys,       \* keys[s]: MCChain.keys of store s, the declared field list
    disk,       \* disk[p]: the bytes torch.save left at path p, or NoFile
    saved,      \* history: saved[p] is the mapping the last save(p) was called on
    ret,        \* outcome of the most recent call (operation, result, error)
    mh,         \* the Metropolis-Hastings sampler instance, or NoSampler
    mh2,        \* a second Metropolis-Hastings instance, or NoSampler
    run         \* when the most recent call was a draw(): what it did, cycle by
                \* cycle, and the state it started from; NoRun otherwise

vars == <<vals, keys, disk, saved, ret, mh, mh2, run>>

----------------------------------------------------------------------------
(* Bounds of the model *)

\* longest field sequence a store is driven to
MaxLen == 3
\* longest field sequence the stores are driven to where files are exchanged
MaxSaved == 1
\* most batches the data iterator yields in one draw()
MaxBatches == 2
\* most records a sampler's chain is driven to
MaxChain == 2

\* significand width of torch.float (single precision)
Float32Mantissa == 24

----------------------------------------------------------------------------
(* Value domains *)

Stores == {"A", "B"}
Paths == {"p"}
Thetas == {0, 1}
Flags == {0, 1}

DefaultKeys == <<"theta", "target_val", "accepted">>
KeyLists == {DefaultKeys, <<"theta", "accepted">>}

Range(seq) == {seq[i] : i \in 1..Len(seq)}

NoFile == <<"nofile">>
NoSampler == [live |-> FALSE]
NoRun == [op |-> "none"]

\* the mapping an update() is called with: fields D, values t, tv, a
MkState(D, t, tv, a) ==
    [f \in D |-> IF f = "theta" THEN t ELSE IF f = "target_val" THEN tv ELSE a]

\* the states direct update() calls are driven with: complete records and
\* records lacking a declared field
FieldSets == {{"theta", "target_val", "accepted"}, {"theta", "target_val"}, {"theta"}}
UpdateStates == {MkState(D, a, 0 - a, a) : D \in FieldSets, a \in Flags}

----------------------------------------------------------------------------
(* MCChain *)

\* MCChain.reset: one empty sequence per declared key
EmptyVals(ks) == [k \in Range(ks) |-> <<>>]

\* MCChain.update: the loop `for key in self.keys: self.vals[key].append(state[key])`
\* run from position i; a key missing from self.vals or from state raises
\* KeyError there, with the appends already made left in place.
RECURSIVE UpdateFrom(_, _, _, _)
UpdateFrom(v, ks, st, i) ==
    IF i > Len(ks) THEN [vals |-> v, outcome |-> "ok"]
    ELSE IF ks[i] \notin DOMAIN v \/ ks[i] \notin DOMAIN st
         THEN [vals |-> v, outcome |-> "KeyError"]
         ELSE UpdateFrom([v EXCEPT ![ks[i]] = Append(@, st[ks[i]])], ks, st, i + 1)

ChainUpdate(v, ks, st) == UpdateFrom(v, ks, st, 1)

\* length of the longest field sequence of a mapping
MaxOf(S) == IF S = {} THEN 0 ELSE CHOOSE y \in S : \A z \in S : z <= y

Longest(v) == MaxOf({Len(v[k]) : k \in DOMAIN v})

RECURSIVE Sum(_)
Sum(seq) == IF seq = <<>> THEN 0 ELSE Head(seq) + Sum(Tail(seq))

RECURSIVE Pow2(_)
Pow2(e) == IF e = 0 THEN 1 ELSE 2 * Pow2(e - 1)

\* the binary exponent e at which k * 2^e / n has Float32Mantissa significant bits
RECURSIVE Scale(_, _, _)
Scale(k, n, e) ==
    IF k * Pow2(e) >= Pow2(Float32Mantissa - 1) * n THEN e ELSE Scale(k, n, e + 1)

\* single-precision division k / n (0 <= k, 0 < n, k / n < 2^Float32Mantissa),
\* rounded to nearest, ties to even: the value is num / den, den a power of two
Float32Div(k, n) ==
    IF k = 0 THEN [tag |-> "num", num |-> 0, den |-> 1]
    ELSE LET e == Scale(k, n, 0)
             q == (k * Pow2(e)) \div n
             r == (k * Pow2(e)) % n
             up == 2 * r > n \/ (2 * r = n /\ q % 2 = 1)
         IN  [tag |-> "num", num |-> IF up THEN q + 1 ELSE q, den |-> Pow2(e)]

NaN == [tag |-> "nan"]
NoValue == [tag |-> "none"]
AtPath(p) == [tag |-> "path", path |-> p]

\* the mean taken in an integer dtype: the quotient is truncated
TensorMeanFloor(xs) ==
    IF xs = <<>> THEN NaN ELSE [tag |-> "num", num |-> Sum(xs) \div Len(xs), den |-> 1]

\* torch.tensor(xs, dtype=torch.float).mean(): NaN for no elements, else the
\* single-precision sum divided by the count
TensorMean(xs) == IF xs = <<>> THEN NaN ELSE Float32Div(Sum(xs), Len(xs))

Result(op, s, outcome, value, warned) ==
    [op |-> op, store |-> s, outcome |-> outcome, value |-> value, warned |-> warned]

\* torch.save: the mapping pickled as its (field, sequence) items
Serialize(v) ==
    LET present == SelectSeq(DefaultKeys, LAMBDA k : k \in DOMAIN v)
    IN  [i \in 1..Len(present) |-> <<present[i], v[present[i]]>>]

\* torch.load: the mapping rebuilt from the pickled items
Deserialize(bytes) ==
    [k \in {bytes[i][1] : i \in 1..Len(bytes)} |->
        LET i == CHOOSE j \in 1..Len(bytes) : bytes[j][1] = k IN bytes[i][2]]

MCChain_reset(s) ==
    /\ vals' = [vals EXCEPT ![s] = EmptyVals(keys[s])]
    /\ ret' = Result("reset", s, "ok", NoValue, {})
    /\ run' = NoRun /\ UNCHANGED <<keys, disk, saved, mh, mh2>>

MCChain_update(s, st) ==
    LET r == ChainUpdate(vals[s], keys[s], st)
    IN  /\ vals' = [vals EXCEPT ![s] = r.vals]
        /\ ret' = Result("update", s, r.outcome, NoValue, {})
        /\ run' = NoRun /\ UNCHANGED <<keys, disk, saved, mh, mh2>>

\* MCChain.state with the try removed: the first field without a value
\* raises IndexError and the whole call fails
ChainStateStrict(v) ==
    IF \E k \in DOMAIN v : v[k] = <<>>
    THEN [outcome |-> "IndexError", map |-> <<>>, warned |-> {}]
    ELSE [outcome |-> "ok", map |-> [k \in DOMAIN v |-> v[k][Len(v[k])]], warned |-> {}]

\* MCChain.state: the last value of every field that has one; a field with
\* no value is reported (the WARNING print) and left out
ChainState(v) ==
    LET have == {k \in DOMAIN v : v[k] # <<>>}
    IN  [outcome |-> "ok", map |-> [k \in have |-> v[k][Len(v[k])]],
         warned |-> DOMAIN v \ have]

MCChain_state(s) ==
    LET r == ChainState(vals[s])
    IN  /\ ret' = Result("state", s, r.outcome, [tag |-> "map", map |-> r.map], r.warned)
        /\ run' = NoRun /\ UNCHANGED <<vals, keys, disk, saved, mh, mh2>>

\* MCChain.mean: torch.stack of an empty list raises RuntimeError
MCChain_mean(s) ==
    LET v == vals[s]
    IN  /\ ret' = IF "theta" \notin DOMAIN v
                     THEN Result("mean", s, "KeyError", NoValue, {})
                  ELSE IF v["theta"] = <<>>
                     THEN Result("mean", s, "RuntimeError", NoValue, {})
                  ELSE Result("mean", s, "ok", TensorMean(v["theta"]), {})
        /\ run' = NoRun /\ UNCHANGED <<vals, keys, disk, saved, mh, mh2>>

\* MCChain.acceptance_rate: no check of the length before the tensor mean
MCChain_acceptance_rate(s) ==
    LET v == vals[s]
    IN  /\ ret' = IF "accepted" \notin DOMAIN v
                     THEN Result("acceptance_rate", s, "KeyError", NoValue, {})
                  ELSE Result("acceptance_rate", s, "ok", TensorMean(v["accepted"]), {})
        /\ run' = NoRun /\ UNCHANGED <<vals, keys, disk, saved, mh, mh2>>

MCChain_save(s, p) ==
    /\ disk' = [disk EXCEPT ![p] = Serialize(vals[s])]
    /\ saved' = [saved EXCEPT ![p] = vals[s]]
    /\ ret' = Result("save", s, "ok", AtPath(p), {})
    /\ run' = NoRun /\ UNCHANGED <<vals, keys, mh, mh2>>

\* a load that merges the file into the mapping in place (dict.update)
LoadedValsMerge(old, bytes) ==
    LET new == Deserialize(bytes)
    IN  [k \in DOMAIN old \cup DOMAIN new |-> IF k \in DOMAIN new THEN new[k] ELSE old[k]]

\* MCChain.load: self.vals = torch.load(path), whatever fields the file holds
LoadedVals(old, bytes) == Deserialize(bytes)

MCChain_load(s, p) ==
    IF disk[p] = NoFile
    THEN /\ ret' = Result("load", s, "FileNotFoundError", AtPath(p), {})
         /\ run' = NoRun /\ UNCHANGED <<vals, keys, disk, saved, mh, mh2>>
    ELSE /\ vals' = [vals EXCEPT ![s] = LoadedVals(vals[s], disk[p])]
         /\ ret' = Result("load", s, "ok", AtPath(p), {})
         /\ run' = NoRun /\ UNCHANGED <<keys, disk, saved, mh, mh2>>

----------------------------------------------------------------------------
(* Collaborators of the samplers: the model oracle, the proposal kernel,   *)
(* the uniform draw                                                        *)

\* the targets a sampler is constructed with: a flat target returning the
\* constant c for every theta and batch, and a quadratic one centred at the batch
Models == {[kind |-> "flat", c |-> c] : c \in {0 - 2, 3}} \cup {[kind |-> "quad", c |-> 0]}

\* a target whose oracle raises on the parameter value 1 and is quadratic elsewhere
PartialModel == [kind |-> "partial", c |-> 0]

AllModels == Models \cup {PartialModel}

\* model.log_target(theta, data, label) raises instead of returning
OracleFails(m, theta, b) == m.kind = "partial" /\ theta = 1

\* model.log_target(theta, data, label), data being batch b
LogTarget(m, theta, b) ==
    IF m.kind = "flat" THEN m.c ELSE 0 - ((theta - b) * (theta - b))

\* kernel.log_density(x) of a unit normal kernel whose density is centred at loc
KernelLogDensity(loc, x) == 0 - ((x - loc) * (x - loc)) - 2

\* torch.log(torch.rand(1)): rand draws u in [0, 1), so the logarithm is
\* minus infinity (u = 0) or a negative number
LogUDraws == {[inf |-> TRUE, v |-> 0], [inf |-> FALSE, v |-> 0 - 1]}

\* log(u) < r
LogLess(logu, r) == logu.inf \/ logu.v < r

----------------------------------------------------------------------------
(* MetropolisHastings *)

\* the log-ratio with the sign of the current target value slipped
MH_LogRateSum(symmetric, loc, theta, target_val, ptheta, ptarget_val) ==
    IF symmetric
    THEN ptarget_val + target_val
    ELSE (0 - KernelLogDensity(loc, ptheta)) + ptarget_val
         + KernelLogDensity(ptheta, theta)

\* the acceptance log-ratio draw() compares log(u) with, where loc is the
\* centre of the kernel's density when the cycle starts
MH_LogRate(symmetric, loc, theta, target_val, ptheta, ptarget_val) ==
    IF symmetric
    THEN ptarget_val - target_val
    ELSE (0 - KernelLogDensity(loc, ptheta)) + ptarget_val
         + KernelLogDensity(ptheta, theta)

\* the centre of the kernel's density when a cycle ends: set_density(theta')
\* runs only when the kernel is not symmetric, set_density(current.theta)
\* on every rejection
MH_KernelAfter(symmetric, kernel, theta, ptheta, acc) ==
    IF acc THEN (IF symmetric THEN kernel ELSE ptheta) ELSE theta

\* the decision of a cycle with the comparison turned round
MH_AcceptsFlipped(logu, r) == ~LogLess(logu, r)

\* the decision of a cycle: torch.log(torch.rand(1)) < log_rate
MH_Accepts(logu, r) == LogLess(logu, r)

\* one pass of the loop body of draw() on batch b, with kernel.sample()
\* returning ptheta and torch.log(torch.rand(1)) returning logu
MH_Cycle(m, b, ptheta, logu) ==
    LET ptv == LogTarget(m.model, ptheta, b)
        r == MH_LogRate(m.symmetric, m.kernel, m.theta, m.target_val, ptheta, ptv)
        acc == MH_Accepts(logu, r)
        k == MH_KernelAfter(m.symmetric, m.kernel, m.theta, ptheta, acc)
        after == IF acc
                 THEN [m EXCEPT !.theta = ptheta, !.target_val = ptv, !.accepted = 1,
                                !.params = ptheta, !.kernel = k]
                 ELSE [m EXCEPT !.accepted = 0, !.params = m.theta, !.kernel = k]
    IN  [mh |-> after,
         cycle |-> [batch |-> b, theta0 |-> m.theta, target_val0 |-> m.target_val,
                    kernel0 |-> m.kernel, ptheta |-> ptheta, ptarget_val |-> ptv,
                    logu |-> logu, log_rate |-> r,
                    accepted |-> after.accepted, theta |-> after.theta,
                    target_val |-> after.target_val, kernel |-> after.kernel,
                    params |-> after.params]]

\* the record draw() hands to chain.update: a copy of self.current
CurrentOf(m) == MkState({"theta", "target_val", "accepted"}, m.theta, m.target_val, m.accepted)

\* a draw() that catches the oracle's error and returns as if nothing happened
MH_OracleRaisedMasked(m, v, done, b) ==
    [mh |-> m, vals |-> v, cycles |-> done, outcome |-> "ok", failedAt |-> b]

\* draw() when log_target raises on batch b: nothing of the cycle has been
\* assigned yet, and the exception leaves draw() as it is
MH_OracleRaised(m, v, done, b) ==
    [mh |-> m, vals |-> v, cycles |-> done, outcome |-> "OracleError", failedAt |-> b]

\* the loop of draw() over the batches from b on; ins[i] holds the kernel and
\* uniform draws of the i-th remaining batch.  A failing log_target or
\* chain.update ends it.
RECURSIVE MH_Loop(_, _, _, _, _, _, _)
MH_Loop(m, v, ks, savestate, b, ins, done) ==
    IF ins = <<>>
    THEN [mh |-> m, vals |-> v, cycles |-> done, outcome |-> "ok", failedAt |-> 0]
    ELSE IF OracleFails(m.model, Head(ins).ptheta, b)
    THEN MH_OracleRaised(m, v, done, b)
    ELSE LET c == MH_Cycle(m, b, Head(ins).ptheta, Head(ins).logu)
             u == IF savestate THEN ChainUpdate(v, ks, CurrentOf(c.mh))
                  ELSE [vals |-> v, outcome |-> "ok"]
         IN  IF u.outcome # "ok"
             THEN [mh |-> c.mh, vals |-> u.vals, cycles |-> Append(done, c.cycle),
                   outcome |-> u.outcome, failedAt |-> 0]
             ELSE MH_Loop(c.mh, u.vals, ks, savestate, b + 1, Tail(ins),
                          Append(done, c.cycle))

Draws == [ptheta : Thetas, logu : LogUDraws]

RECURSIVE SeqsOf(_, _)
SeqsOf(S, n) == IF n = 0 THEN {<<>>}
                ELSE {Append(q, x) : q \in SeqsOf(S, n - 1), x \in S}

\* the ChainList the def statement of __init__ builds once, as the default
\* value of its chain parameter
DefaultChain == "A"

ResetCall(theta) == [tag |-> "reset", theta |-> theta]

\* the instance __init__ leaves when reset(theta0) returns: the default
\* kernel is centred at zero, the chain is the one passed or the default
MH_new(model, theta0, symmetric, chain) ==
    [live |-> TRUE, model |-> model, symmetric |-> symmetric,
     kernel |-> 0, theta |-> theta0,
     target_val |-> LogTarget(model, theta0, 1),
     accepted |-> 0 - 1, params |-> theta0, chain |-> chain]

\* what the call of reset(theta0) in __init__ raises on a dataloader of k
\* batches: StopIteration from next(iter(...)), or the oracle's error
InitOutcome(model, theta0, k) ==
    IF k = 0 THEN "StopIteration"
    ELSE IF OracleFails(model, theta0, 1) THEN "OracleError" ELSE "ok"

\* MetropolisHastings.__init__ with the default kernel and chain
MH_init(model, theta0, symmetric, k) ==
    /\ ~mh.live
    /\ IF InitOutcome(model, theta0, k) # "ok"
       THEN UNCHANGED mh
       ELSE mh' = MH_new(model, theta0, symmetric, DefaultChain)
    /\ ret' = Result("MH.init", DefaultChain, InitOutcome(model, theta0, k),
                     ResetCall(theta0), {})
    /\ run' = NoRun /\ UNCHANGED <<vals, keys, disk, saved, mh2>>

\* MetropolisHastings.__init__ of a second instance, again with the default chain
MH_init2(model, theta0, symmetric, k) ==
    /\ ~mh2.live
    /\ IF InitOutcome(model, theta0, k) # "ok"
       THEN UNCHANGED mh2
       ELSE mh2' = MH_new(model, theta0, symmetric, DefaultChain)
    /\ ret' = Result("MH.init", DefaultChain, InitOutcome(model, theta0, k),
                     ResetCall(theta0), {})
    /\ run' = NoRun /\ UNCHANGED <<vals, keys, disk, saved, mh>>

\* the instance after reset(theta) on a dataloader of k batches: the first
\* batch is read, then current.theta is assigned, then the oracle is called
MH_resetTo(m, theta, k) ==
    IF k = 0 THEN m
    ELSE IF OracleFails(m.model, theta, 1) THEN [m EXCEPT !.theta = theta]
    ELSE [m EXCEPT !.theta = theta,
                   !.target_val = LogTarget(m.model, theta, 1),
                   !.params = theta]

\* MetropolisHastings.reset(theta) with a dataloader of k batches
MH_reset(theta, k) ==
    /\ mh.live
    /\ mh' = MH_resetTo(mh, theta, k)
    /\ ret' = Result("MH.reset", mh.chain, InitOutcome(mh.model, theta, k),
                     ResetCall(theta), {})
    /\ run' = NoRun /\ UNCHANGED <<vals, keys, disk, saved, mh2>>

\* MetropolisHastings.draw(savestate) with a dataloader of Len(ins) batches
MH_draw(savestate, ins) ==
    /\ mh.live
    /\ LET r == MH_Loop(mh, vals[mh.chain], keys[mh.chain], savestate, 1, ins, <<>>)
       IN  /\ mh' = r.mh
           /\ vals' = [vals EXCEPT ![mh.chain] = r.vals]
           /\ ret' = Result("MH.draw", mh.chain, r.outcome, NoValue, {})
           /\ run' = [op |-> "draw", sampler |-> "MH", savestate |-> savestate,
                      k |-> Len(ins), outcome |-> r.outcome, cycles |-> r.cycles,
                      evals |-> Len(r.cycles) + (IF r.failedAt > 0 THEN 1 ELSE 0),
                      failedAt |-> r.failedAt,
                      mh0 |-> mh, vals0 |-> vals[mh.chain]]
    /\ UNCHANGED <<keys, disk, saved, mh2>>

----------------------------------------------------------------------------
(* MALA *)

\* eeyore/mcmc/samplers/mala.py does not compile: the conditions of lines 35,
\* 51 and 59 open two parentheses and close one.  Importing the module raises
\* SyntaxError, so no MALA object is ever constructed and a program that
\* goes on to draw() from one stops at the import.
MALA_draw(savestate, k) ==
    /\ ret' = Result("MALA.draw", "A", "SyntaxError", NoValue, {})
    /\ run' = [op |-> "draw", sampler |-> "MALA", savestate |-> savestate,
               k |-> k, outcome |-> "SyntaxError", cycles |-> <<>>, evals |-> 0,
               failedAt |-> 0,
               mh0 |-> mh, vals0 |-> vals["A"]]
    /\ UNCHANGED <<vals, keys, disk, saved, mh, mh2>>

\* MALA.reset(theta), for the same reason: the module that defines it does
\* not compile
MALA_reset(theta, k) ==
    /\ ret' = Result("MALA.reset", "A", "SyntaxError", ResetCall(theta), {})
    /\ run' = NoRun /\ UNCHANGED <<vals, keys, disk, saved, mh, mh2>>

----------------------------------------------------------------------------
(* Specifications *)

Init ==
    /\ keys \in {[s \in Stores |-> IF s = "A" THEN DefaultKeys ELSE kb] : kb \in KeyLists}
    /\ vals = [s \in Stores |-> EmptyVals(keys[s])]
    /\ disk = [p \in Paths |-> NoFile]
    /\ saved = [p \in Paths |-> NoFile]
    /\ ret = Result("init", "A", "ok", NoValue, {})
    /\ mh = NoSampler
    /\ mh2 = NoSampler
    /\ run = NoRun

\* the chain store of one sampler, driven directly
DriveUpdate == \E st \in UpdateStates : Longest(vals["A"]) < MaxLen /\ MCChain_update("A", st)
DriveReset == MCChain_reset("A")
DriveState == MCChain_state("A")
DriveMean == MCChain_mean("A")
DriveRate == MCChain_acceptance_rate("A")

Next == DriveUpdate \/ DriveReset \/ DriveState \/ DriveMean \/ DriveRate

Spec == Init /\ [][Next]_vars

\* two stores exchanging files
FileUpdate == \E s \in Stores, st \in UpdateStates :
                 Longest(vals[s]) < MaxSaved /\ MCChain_update(s, st)
FileReset == \E s \in Stores : MCChain_reset(s)
FileSave == \E s \in Stores, p \in Paths : MCChain_save(s, p)
FileLoad == \E s \in Stores, p \in Paths : MCChain_load(s, p)
FileState == \E s \in Stores : MCChain_state(s)

NextPersist == FileUpdate \/ FileReset \/ FileSave \/ FileLoad \/ FileState

SpecPersist == Init /\ [][NextPersist]_vars

\* one Metropolis-Hastings sampler drawing without recording (burn-in)
Construct == \E m \in AllModels, t \in Thetas, sym \in BOOLEAN, k \in 0..1 :
                MH_init(m, t, sym, k)
Restart == \E t \in Thetas, k \in 0..1 : MH_reset(t, k)
RestartMALA == \E t \in Thetas, k \in 0..1 : MALA_reset(t, k)
Draw == \E k \in 0..MaxBatches : \E ins \in SeqsOf(Draws, k) : MH_draw(FALSE, ins)

NextSampler == Construct \/ Restart \/ RestartMALA \/ Draw

SpecSampler == Init /\ [][NextSampler]_vars

\* the samplers recording into store A: the driver empties the chain, draws
\* with or without recording, and a MALA client draws too
Setup == \E m \in Models, sym \in BOOLEAN : MH_init(m, 0, sym, 1)
Record == \E sv \in BOOLEAN, k \in 0..MaxBatches : \E ins \in SeqsOf(Draws, k) :
             /\ (sv => Longest(vals["A"]) + k <= MaxChain)
             /\ MH_draw(sv, ins)
RecordMALA == \E sv \in BOOLEAN, k \in 0..MaxBatches : MALA_draw(sv, k)
ClearChain == MCChain_reset("A")

NextRecord == Setup \/ Record \/ RecordMALA \/ ClearChain

SpecRecord == Init /\ [][NextRecord]_vars

\* one Metropolis-Hastings sampler of any target recording every draw into
\* its chain, which the driver may empty between draws
Build == \E m \in AllModels, t \in Thetas, sym \in BOOLEAN : MH_init(m, t, sym, 1)
Sample == \E k \in 0..MaxBatches : \E ins \in SeqsOf(Draws, k) :
             /\ Longest(vals[DefaultChain]) + k <= MaxChain
             /\ MH_draw(TRUE, ins)
Empty == MCChain_reset(DefaultChain)

NextSampling == Build \/ Sample \/ Empty

SpecSampling == Init /\ [][NextSampling]_vars

\* two Metropolis-Hastings samplers, each built with the default chain; only
\* the first one draws
First == \E m \in Models, sym \in BOOLEAN : MH_init(m, 0, sym, 1)
Second == \E sym \in BOOLEAN : MH_init2(PartialModel, 0, sym, 1)
FirstDraws == \E k \in 0..MaxBatches : \E ins \in SeqsOf(Draws, k) :
                 /\ Longest(vals[DefaultChain]) + k <= MaxChain
                 /\ MH_draw(TRUE, ins)

NextShared == First \/ Second \/ FirstDraws

SpecShared == Init /\ [][NextShared]_vars

----------------------------------------------------------------------------
(* Properties *)

SameLengths(v) == \A f \in DOMAIN v, g \in DOMAIN v : Len(v[f]) = Len(v[g])

\* C1: after every completed update(state), in any sequence of update and
\* reset calls on a store that started empty, and after every draw that
\* records, all field sequences of the store have the same length.
C1_EqualLengthsAfterUpdate ==
    \/ (ret.op = "update" /\ ret.outcome = "ok")
    \/ (run.op = "draw" /\ run.savestate /\ run.outcome = "ok")
    => SameLengths(vals[ret.store])

\* the call was acceptance_rate() on a store whose accepted sequence is not empty
RateCalled ==
    /\ ret.op = "acceptance_rate"
    /\ "accepted" \in DOMAIN vals[ret.store]
    /\ vals[ret.store]["accepted"] # <<>>

Abs(x) == IF x < 0 THEN 0 - x ELSE x

IsPow2(n) == \E e \in 0..n : Pow2(e) = n

\* C2 (as stated): for a non-empty history acceptance_rate() equals the number
\* of records with accepted = 1 divided by the number of records.
C2_RateIsExactMean ==
    RateCalled =>
        LET acc == vals[ret.store]["accepted"]
        IN  /\ ret.outcome = "ok" /\ ret.value.tag = "num"
            /\ ret.value.num * Len(acc) = Sum(acc) * ret.value.den

\* C2 (amended): for a non-empty history acceptance_rate() is the count of
\* accepted records divided by the number of records, rounded to single
\* precision: it is within a relative 2^-24 of the quotient, equal to it when
\* the number of records is a power of two, exactly 1 when every record is
\* accepted and exactly 0 when none is.
C2_RateIsRoundedMean ==
    RateCalled =>
        LET acc == vals[ret.store]["accepted"]
            n == Len(acc)
            k == Sum(acc)
            v == ret.value
        IN  /\ ret.outcome = "ok" /\ v.tag = "num"
            /\ Abs(v.num * n - k * v.den) * Pow2(Float32Mantissa) <= k * v.den
            /\ (IsPow2(n) => v.num * n = k * v.den)
            /\ (k = n => v.num = v.den)
            /\ (k = 0 => v.num = 0)

\* a rate of one accepted record in three has been returned, rounded
C2_Witness ==
    /\ RateCalled
    /\ Len(vals[ret.store]["accepted"]) = 3
    /\ Sum(vals[ret.store]["accepted"]) = 1
    /\ ret.value.num * 3 # ret.value.den

\* C3: after a store loads path p, its field-to-sequence mapping is the one
\* the saving store held when it saved p, and nothing else.
C3_LoadRestoresSaved ==
    ret.op = "load" /\ ret.outcome = "ok" => vals[ret.store] = saved[ret.value.path]

\* store B, declared without target_val, has loaded a file of three fields
\* holding a record
C3_Witness ==
    /\ ret.op = "load" /\ ret.outcome = "ok" /\ ret.store = "B"
    /\ "target_val" \notin Range(keys["B"])
    /\ "target_val" \in DOMAIN vals["B"]
    /\ vals["B"]["theta"] # <<>>

\* C4: a load of a file whose fields are not the store's declared keys fails
\* and leaves the store's sequences as they were.
C4_LoadRejectsMismatch ==
    [][\A s \in Stores, p \in Paths :
          /\ ret'.op = "load" /\ ret'.store = s /\ ret'.value = AtPath(p)
          /\ disk[p] # NoFile
          /\ DOMAIN Deserialize(disk[p]) # Range(keys[s])
          => ret'.outcome # "ok" /\ vals' = vals]_vars

\* C5: mean() and acceptance_rate() on a store holding no record end in an
\* error; neither returns a value.
C5_EmptySummaryFails ==
    /\ ret.op \in {"mean", "acceptance_rate"}
    /\ \A f \in DOMAIN vals[ret.store] : vals[ret.store][f] = <<>>
    => ret.outcome # "ok"

\* C6: state() never fails; it returns the last value of every field that
\* has one, and reports and leaves out every field that has none.
C6_StateIsPartialResult ==
    ret.op = "state" =>
        LET v == vals[ret.store]
            m == ret.value.map
        IN  /\ ret.outcome = "ok"
            /\ DOMAIN m = {f \in DOMAIN v : v[f] # <<>>}
            /\ \A f \in DOMAIN m : m[f] = v[f][Len(v[f])]
            /\ ret.warned = {f \in DOMAIN v : v[f] = <<>>}

\* state() has returned some fields and reported others as empty
C6_Witness ==
    /\ ret.op = "state"
    /\ ret.warned # {}
    /\ DOMAIN ret.value.map # {}
    /\ \E f \in DOMAIN ret.value.map : Len(vals[ret.store][f]) > 1

MHDrew == run.op = "draw" /\ run.sampler = "MH"

\* C7: with a symmetric kernel and a target that is the same constant
\* everywhere, every cycle of every draw accepts: accepted = 1 and the current
\* theta is the proposed one, whatever the kernel and the uniform draw.
C7_FlatTargetAlwaysAccepts ==
    MHDrew /\ mh.symmetric /\ mh.model.kind = "flat" =>
        /\ \A i \in 1..Len(run.cycles) :
              /\ run.cycles[i].accepted = 1
              /\ run.cycles[i].theta = run.cycles[i].ptheta
        /\ (run.cycles # <<>> =>
              /\ mh.accepted = 1
              /\ mh.theta = run.cycles[Len(run.cycles)].ptheta)

\* a draw of two cycles on a flat target has moved to a new theta on a
\* uniform draw above zero
C7_Witness ==
    /\ MHDrew /\ mh.symmetric /\ mh.model.kind = "flat"
    /\ Len(run.cycles) = 2
    /\ ~run.cycles[2].logu.inf
    /\ run.cycles[2].ptheta # run.cycles[2].theta0
    /\ mh.theta = run.cycles[2].ptheta

\* C8: with symmetric = False the log-ratio compared with log(u) is
\* target_val' - target_val - log_density(theta' | centred at theta)
\* + log_density(theta | centred at theta').
C8_HastingsLogRatio ==
    MHDrew /\ ~mh.symmetric =>
        \A i \in 1..Len(run.cycles) :
            LET c == run.cycles[i]
            IN  c.log_rate = c.ptarget_val - c.target_val0
                             - KernelLogDensity(c.theta0, c.ptheta)
                             + KernelLogDensity(c.ptheta, c.theta0)

\* C9: a draw() over zero batches, on either sampler, completes without error
\* and leaves current, the kernel and the chain store unchanged.
C9_EmptyDrawIsNoOp ==
    run.op = "draw" /\ run.k = 0 =>
        /\ run.outcome = "ok"
        /\ mh = run.mh0
        /\ vals["A"] = run.vals0

\* C10: a draw() over k batches, on either sampler, runs k cycles in batch
\* order with one oracle evaluation each, appends k records when it records
\* and leaves the chain store unchanged when it does not.
C10_OneCyclePerBatch ==
    run.op = "draw" =>
        /\ run.outcome = "ok"
        /\ Len(run.cycles) = run.k
        /\ \A i \in 1..Len(run.cycles) : run.cycles[i].batch = i
        /\ run.evals = run.k
        /\ (run.savestate =>
              \A f \in DOMAIN vals["A"] : Len(vals["A"][f]) = Len(run.vals0[f]) + run.k)
        /\ (~run.savestate => vals["A"] = run.vals0)

\* the entry a recording draw appended to the chain for its i-th cycle
Entry(i) ==
    LET v == vals[mh.chain]
        n == Len(run.vals0["theta"]) + i
    IN  [theta |-> v["theta"][n], target_val |-> v["target_val"][n],
         accepted |-> v["accepted"][n]]

\* C11: a cycle of Metropolis-Hastings accepts exactly when log(u) is below
\* the log-ratio r it computed.  Accepting makes the proposed theta and
\* target value the current ones and sets accepted to 1; rejecting keeps the
\* current theta and target value, puts the model's parameters and the
\* kernel's centre back at the current theta and sets accepted to 0.  The
\* entry a recording draw appends for a rejected cycle therefore repeats the
\* theta and target value of the state before that cycle.
C11_AcceptRejectStep ==
    MHDrew =>
        /\ \A i \in 1..Len(run.cycles) :
              LET c == run.cycles[i]
              IN  /\ (c.accepted = 1) <=> LogLess(c.logu, c.log_rate)
                  /\ c.accepted \in {0, 1}
                  /\ c.accepted = 1 =>
                        c.theta = c.ptheta /\ c.target_val = c.ptarget_val
                  /\ c.accepted = 0 =>
                        /\ c.theta = c.theta0 /\ c.target_val = c.target_val0
                        /\ c.params = c.theta0 /\ c.kernel = c.theta0
                  /\ run.savestate =>
                        /\ Entry(i) = [theta |-> c.theta, target_val |-> c.target_val,
                                       accepted |-> c.accepted]
                        /\ c.accepted = 0 =>
                              /\ Entry(i).theta = c.theta0
                              /\ Entry(i).target_val = c.target_val0
        /\ run.savestate =>
              \A f \in DOMAIN vals[mh.chain] :
                  Len(vals[mh.chain][f]) = Len(run.vals0[f]) + Len(run.cycles)

\* a recording draw onto a chain that already holds an entry, one of whose
\* cycles rejected a proposal different from the current theta
C11_Witness ==
    /\ MHDrew /\ run.savestate /\ Len(run.vals0["theta"]) > 0
    /\ \E i \in 1..Len(run.cycles) :
          run.cycles[i].accepted = 0 /\ run.cycles[i].ptheta # run.cycles[i].theta0

MALADrew == run.op = "draw" /\ run.sampler = "MALA"

\* C12: a MALA sampler built with the default bounds (-inf, +inf) goes, in
\* every cycle of a draw, through the unconstrained form at all three places
\* where the bounds are tested: proposal, forward and backward correction.
C12_DefaultBoundsUnconstrained ==
    MALADrew /\ run.k >= 1 =>
        /\ Len(run.cycles) = run.k
        /\ \A i \in 1..Len(run.cycles) :
              run.cycles[i].branches = <<"normal", "normal", "normal">>

\* C13: of two samplers that were each built with the default chain argument,
\* a recording draw on the first leaves the chain store of the second as it was.
C13_ExclusiveChainStore ==
    [][(MHDrew' /\ mh.live /\ mh2.live) => vals'[mh2.chain] = vals[mh2.chain]]_vars

\* what reset(theta) does to a Metropolis-Hastings sampler when it returns
ResetEffect ==
    /\ mh'.theta = ret'.value.theta
    /\ mh'.target_val = LogTarget(mh'.model, ret'.value.theta, 1)
    /\ mh.live => mh'.accepted = mh.accepted
    /\ vals' = vals

\* C14: reset(theta0) of either sampler, called by the constructor or after
\* draws, on data that has a first batch the oracle can evaluate theta0 on,
\* returns normally, having set current.theta to theta0 and the target value
\* to the oracle's value at theta0 on the first batch; it leaves the accepted
\* flag and the chain store as they were.
C14_ResetRestartsFromTheta0 ==
    [][(ret'.op \in {"MH.init", "MH.reset", "MALA.reset"}
        /\ ret'.outcome \notin {"StopIteration", "OracleError"}) =>
           /\ ret'.outcome = "ok"
           /\ vals' = vals
           /\ ret'.op \in {"MH.init", "MH.reset"} => ResetEffect]_vars

\* the claimed log-ratio of a MALA cycle c, times 2 * step: the difference
\* of the target values plus the squared deviation of the proposal from the
\* forward mean minus that of the current theta from the backward mean
LangevinLogRatio2Step(c) ==
    2 * c.step * (c.ptarget_val - c.target_val0)
        + (c.ptheta - c.mean) * (c.ptheta - c.mean)
        - (c.theta0 - c.pmean) * (c.theta0 - c.pmean)

\* C15: every cycle of an unconstrained MALA draw compares log(u) with
\* target_val' - target_val + |theta' - m|^2 / (2 step) - |theta - m'|^2 / (2 step),
\* m' being the mean computed from the proposed point and its gradient.
C15_LangevinLogRatio ==
    MALADrew /\ run.k >= 1 =>
        /\ Len(run.cycles) = run.k
        /\ \A i \in 1..Len(run.cycles) :
              2 * run.cycles[i].step * run.cycles[i].log_rate
                  = LangevinLogRatio2Step(run.cycles[i])

\* some single call of the oracle on theta returned tv
OracleReturned(m, theta, tv) ==
    \E b \in 1..MaxBatches : ~OracleFails(m, theta, b) /\ tv = LogTarget(m, theta, b)

\* C16: after a reset that returned and after every cycle of a draw, the
\* target value of the current record is a value the oracle returned, in one
\* call, for the current theta.
C16_CurrentRecordConsistent ==
    (mh.live /\ \/ (ret.op \in {"MH.init", "MH.reset"} /\ ret.outcome = "ok")
                \/ (MHDrew /\ Len(run.cycles) >= 1)) =>
        OracleReturned(mh.model, mh.theta, mh.target_val)

\* C17: with symmetric = False, every cycle of a draw starts with the
\* kernel's density centred at the current theta: the first cycle after
\* construction or after a later reset, and the cycles that follow an
\* accepted or a rejected one.
C17_KernelCentredAtCurrent ==
    (MHDrew /\ ~run.mh0.symmetric) =>
        \A i \in 1..Len(run.cycles) : run.cycles[i].kernel0 = run.cycles[i].theta0

\* C18: with symmetric = True no cycle of a draw, accepted or rejected,
\* changes the kernel's density: every proposal is drawn from the density
\* the sampler was constructed with, the default one being centred at zero.
C18_SymmetricKernelFixed ==
    (MHDrew /\ run.mh0.symmetric) =>
        /\ \A i \in 1..Len(run.cycles) : run.cycles[i].kernel = run.cycles[i].kernel0
        /\ mh.kernel = 0

\* theta, target value, accepted flag and kernel centre of a sampler or of
\* the end of a cycle
Committed(x) ==
    [theta |-> x.theta, target_val |-> x.target_val, accepted |-> x.accepted,
     kernel |-> x.kernel]

\* C19: when the oracle raises on the proposal of some cycle of a draw, the
\* draw ends with the oracle's error; the current record, the kernel's centre
\* and the chain store are those the cycle started with, that is, those the
\* cycles before it left, whose entries stay in the chain.
C19_OracleFailureLeavesCycleStart ==
    (MHDrew /\ run.failedAt > 0) =>
        LET n == Len(run.cycles)
        IN  /\ run.outcome = "OracleError" /\ ret.outcome = "OracleError"
            /\ n = run.failedAt - 1
            /\ Committed(mh) = Committed(IF n = 0 THEN run.mh0 ELSE run.cycles[n])
            /\ \A i \in 1..n : Committed(run.cycles[i]) =
                  Committed(MH_Cycle(IF i = 1 THEN run.mh0
                                     ELSE [run.mh0 EXCEPT
                                              !.theta = run.cycles[i - 1].theta,
                                              !.target_val = run.cycles[i - 1].target_val,
                                              !.accepted = run.cycles[i - 1].accepted,
                                              !.kernel = run.cycles[i - 1].kernel],
                                     i, run.cycles[i].ptheta, run.cycles[i].logu).mh)
            /\ IF run.savestate
               THEN /\ \A f \in DOMAIN vals[mh.chain] :
                         Len(vals[mh.chain][f]) = Len(run.vals0[f]) + n
                    /\ \A f \in DOMAIN vals[mh.chain] :
                         SubSeq(vals[mh.chain][f], 1, Len(run.vals0[f])) = run.vals0[f]
                    /\ \A i \in 1..n :
                         Entry(i) = [theta |-> run.cycles[i].theta,
                                     target_val |-> run.cycles[i].target_val,
                                     accepted |-> run.cycles[i].accepted]
               ELSE vals[mh.chain] = run.vals0

\* a recording draw whose oracle raised in the second cycle, after a first
\* cycle that was committed and recorded
C19_Witness ==
    /\ MHDrew /\ run.savestate /\ run.failedAt = 2
    /\ Len(run.cycles) = 1
    /\ Len(vals[mh.chain]["theta"]) = Len(run.vals0["theta"]) + 1

\* C20: an update whose state lacks a declared field is reported as an error
\* and extends no field's sequence.
C20_IncompleteUpdateAppendsNothing ==
    [][\A st \in UpdateStates :
          (MCChain_update("A", st) /\ Range(keys["A"]) \ DOMAIN st # {}) =>
              ret'.outcome # "ok" /\ vals' = vals]_vars

====
